---- MODULE Spec2Model ----
(***************************************************************************)
(* Model of the HTTP server's dispatch engine: the worker pool             *)
(* (src/utils/thread_pool.rs), the path router (src/router.rs), the        *)
(* request parser and the connection job (src/server.rs) and the response  *)
(* writer (src/context.rs).                                                *)
(*                                                                         *)
(* Spec        the thread pool: the caller thread (execute, drop) and the  *)
(*             worker threads' loops, interleaved.                         *)
(* FairSpec    the pool with terminating jobs, workers scheduled fairly.   *)
(* RouterSpec  the router: route registration, then one handle_request on  *)
(*             a request drawn by the action.                              *)
(* ConnSpec    one connection: the bytes the peer sends are parsed, the    *)
(*             request is routed or the error answered, the handler makes  *)
(*             its terminal writes; the pool is left aside.                *)
(* ContextSpec one Context: add_response_header and the terminal writes    *)
(*             string and json, called in any order.                       *)
(* StallSpec   the pool with jobs that may return, panic or never return,  *)
(*             workers scheduled fairly.                                   *)
(***************************************************************************)
EXTENDS Integers, Sequences, FiniteSets, TLC

\* ------------------------------------------------------------------ bounds
MaxSize == 2        \* ThreadPool::new is called with size in 0..MaxSize
MaxJobs == 3        \* at most MaxJobs calls of execute
MaxRoutes == 2      \* at most MaxRoutes routes are registered
MaxSegs == 2        \* an incoming path has at most MaxSegs segments
MaxAvail == 2       \* a peer sends at most MaxAvail bytes after the head
MaxWrites == 2      \* a handler calls at most MaxWrites terminal writes

VARIABLES
    \* ---- thread pool (thread_pool.rs)
    size,       \* the argument ThreadPool::new was called with
    workers,    \* ThreadPool.workers: the worker ids spawned, 1..n
    pc,         \* pc[w]: where worker w is in its loop
    cur,        \* cur[w]: the job worker w last received, 0 before the first
    holder,     \* owner of the Mutex around the Receiver, 0 if free
    queue,      \* the mpsc channel's buffered jobs, oldest first
    kind,       \* kind[j]: what job j does when called; j counts execute calls
    sender,     \* ThreadPool.sender: "open" (Some) or "dropped" (None)
    running,    \* jobs whose call job() has started and not ended
    runs,       \* runs[j]: how many times job j was called
    finished,   \* jobs whose call returned
    failed,     \* jobs whose call panicked
    lost,       \* jobs destroyed unrun with the Receiver
    deq,        \* the jobs in the order recv() returned them
    caller,     \* the thread that owns the pool: "running" or "panicked"
    dpc,        \* Drop::drop: "alive", "joining", "returned", "panicked"
    ji,         \* index of the worker drop() joins next
    \* ---- router and one connection's Context (router.rs, context.rs)
    routes,     \* Router.routes, in registration order
    rpc,        \* "setup" while routes are registered, "served" after the request
    request,    \* ctx.request: [method, path], path as received
    selected,   \* what get_route returned: <<>> for None, <<route>> for Some
    path_params,\* ctx.path_params: parameter name -> segment
    invoked,    \* the handlers called, in order
    response_headers, \* ctx.response_headers
    written,    \* the responses handed to writer.write, in order
    wire,       \* per write call: the response's length and what the writer took
    \* ---- one connection's job (server.rs)
    stream,     \* the bytes the peer sends before closing its side
    position,   \* how many of them the job has read
    cpc,        \* "listen", "parse", "dispatch", "handler", "done"
    parsed,     \* what handle_connection returned: Ok, Err or a panic
    hcalls      \* the terminal writes the matched handler has called

poolVars == <<size, workers, pc, cur, holder, queue, kind, sender, running, runs,
              finished, failed, lost, deq, caller, dpc, ji>>

routerVars == <<routes, rpc, request, selected, path_params, invoked,
                response_headers, written, wire>>

connVars == <<stream, position, cpc, parsed, hcalls>>

vars == <<poolVars, routerVars, connVars>>

\* ------------------------------------------------------------ thread pool

\* What a job (a Box<dyn FnOnce()>) can do when a worker calls it: return,
\* panic, or never return (a handler stuck on a stalled peer).
JobKinds == {"ok", "panic", "stall"}

\* let size = size.max(1);
max(a, b) == IF a >= b THEN a ELSE b

\* Faulty variant: new() without the `size.max(1)` line.
ThreadPool_new_unclamped(sz) == 1 .. sz

\* ThreadPool::new: one worker per index of 0..size, after size.max(1).
ThreadPool_new(sz) == 1 .. max(sz, 1)

\* Faulty variant: a channel that hands out the newest message first.
recv_newest(q) == q[Len(q)]

\* mpsc::Receiver::recv on a non-empty channel: the oldest buffered message.
recv(q) == Head(q)

\* A worker thread that has ended, by break or by unwinding.
Ended(p, w) == p[w] \in {"exited", "panicked"}

\* The Receiver lives in an Arc cloned into every worker closure (the Arc made
\* in new() is dropped when new() returns): it is destroyed, with the messages
\* still buffered, when the last worker thread ends.
ReceiverDropped(p) == \A w \in DOMAIN p : Ended(p, w)

Range(s) == {s[i] : i \in DOMAIN s}

PoolInit ==
    /\ size \in 0 .. MaxSize
    /\ workers = ThreadPool_new(size)
    /\ pc = [w \in workers |-> "lock"]
    /\ cur = [w \in workers |-> 0]
    /\ holder = 0
    /\ queue = <<>>
    /\ kind = <<>>
    /\ sender = "open"
    /\ running = {}
    /\ runs = <<>>
    /\ finished = {}
    /\ failed = {}
    /\ lost = {}
    /\ deq = <<>>
    /\ caller = "running"
    /\ dpc = "alive"
    /\ ji = 0

\* ThreadPool::execute: sender.as_ref().unwrap().send(job).expect(..).
\* send() fails only when the Receiver is gone, and expect() then panics.
execute(k) ==
    /\ caller = "running"
    /\ dpc = "alive"
    /\ Len(kind) < MaxJobs
    /\ IF ReceiverDropped(pc)
         THEN /\ caller' = "panicked"
              /\ UNCHANGED <<queue, kind, runs>>
         ELSE /\ kind' = Append(kind, k)
              /\ runs' = Append(runs, 0)
              /\ queue' = Append(queue, Len(kind) + 1)
              /\ UNCHANGED caller
    /\ UNCHANGED <<size, workers, cur, pc, holder, sender, running, finished,
                   failed, lost, deq, dpc, ji>>
    /\ UNCHANGED <<routerVars, connVars>>

\* Worker loop, `receiver.lock()`: blocks until the mutex is free.  The mutex
\* is never poisoned (no panic happens under the guard), so lock() is Ok.
worker_lock(w) ==
    /\ pc[w] = "lock"
    /\ holder = 0
    /\ holder' = w
    /\ pc' = [pc EXCEPT ![w] = "recv"]
    /\ UNCHANGED <<size, workers, cur, queue, kind, sender, running, runs,
                   finished, failed, lost, deq, caller, dpc, ji>>
    /\ UNCHANGED <<routerVars, connVars>>

\* `receiver.recv()` returns Ok(job) under the guard; the guard is dropped at
\* the end of the `let message = ...;` statement, and then `job()` is called.
worker_recv(w) ==
    /\ pc[w] = "recv"
    /\ holder = w
    /\ queue # <<>>
    /\ LET j == recv(queue) IN
         /\ queue' = SelectSeq(queue, LAMBDA x : x # j)
         /\ deq' = Append(deq, j)
         /\ running' = running \cup {j}
         /\ runs' = [runs EXCEPT ![j] = @ + 1]
    /\ holder' = 0
    /\ pc' = [pc EXCEPT ![w] = "run"]
    /\ cur' = [cur EXCEPT ![w] = recv(queue)]
    /\ UNCHANGED <<size, workers, kind, sender, finished, failed, lost,
                   caller, dpc, ji>>
    /\ UNCHANGED <<routerVars, connVars>>

\* `receiver.recv()` returns Err: the channel is empty and the Sender is
\* dropped; the worker breaks out of its loop.
worker_recv_err(w) ==
    /\ pc[w] = "recv"
    /\ holder = w
    /\ queue = <<>>
    /\ sender = "dropped"
    /\ holder' = 0
    /\ pc' = [pc EXCEPT ![w] = "exited"]
    /\ UNCHANGED <<size, workers, cur, queue, kind, sender, running, runs,
                   finished, failed, lost, deq, caller, dpc, ji>>
    /\ UNCHANGED <<routerVars, connVars>>

\* `job()` returns: the worker loops back to lock().
job_return(w, j) ==
    /\ pc[w] = "run"
    /\ j = cur[w]
    /\ kind[j] = "ok"
    /\ running' = running \ {j}
    /\ finished' = finished \cup {j}
    /\ pc' = [pc EXCEPT ![w] = "lock"]
    /\ UNCHANGED <<size, workers, cur, holder, queue, kind, sender, runs,
                   failed, lost, deq, caller, dpc, ji>>
    /\ UNCHANGED <<routerVars, connVars>>

\* What becomes of a worker whose job panics.  Nothing in the loop catches
\* the unwind (no catch_unwind): the thread ends.
after_panic == "panicked"

\* `job()` panics.  The closure is dropped with its clone of the Arc; if it
\* was the last one, the Receiver and every buffered job are destroyed.
job_panic(w, j) ==
    /\ pc[w] = "run"
    /\ j = cur[w]
    /\ kind[j] = "panic"
    /\ running' = running \ {j}
    /\ failed' = failed \cup {j}
    /\ pc' = [pc EXCEPT ![w] = after_panic]
    /\ IF ReceiverDropped(pc')
         THEN /\ lost' = lost \cup Range(queue)
              /\ queue' = <<>>
         ELSE UNCHANGED <<lost, queue>>
    /\ UNCHANGED <<size, workers, cur, holder, kind, sender, runs, finished,
                   deq, caller, dpc, ji>>
    /\ UNCHANGED <<routerVars, connVars>>

\* Drop::drop, `drop(self.sender.take())`: the channel is closed.
drop_sender ==
    /\ dpc = "alive"
    /\ sender' = "dropped"
    /\ dpc' = "joining"
    /\ ji' = 1
    /\ UNCHANGED <<size, workers, cur, pc, holder, queue, kind, running, runs,
                   finished, failed, lost, deq, caller>>
    /\ UNCHANGED <<routerVars, connVars>>

\* Drop::drop, `thread.join().expect(..)` on worker ji: blocks until that
\* thread has ended; Ok if it returned, Err (and expect panics) if it panicked.
drop_join ==
    /\ dpc = "joining"
    /\ Ended(pc, ji)
    /\ IF pc[ji] = "panicked"
         THEN dpc' = "panicked" /\ UNCHANGED ji
         ELSE IF ji = Cardinality(workers)
                THEN dpc' = "returned" /\ UNCHANGED ji
                ELSE ji' = ji + 1 /\ UNCHANGED dpc
    /\ UNCHANGED <<size, workers, cur, pc, holder, queue, kind, sender, running,
                   runs, finished, failed, lost, deq, caller>>
    /\ UNCHANGED <<routerVars, connVars>>

\* ------------------------------------------------------------------ router

\* Strings are sequences of one-character strings.  The segments the model
\* registers and requests: a literal and two parameters.
SegA == <<"a">>
ParamP == <<"{", "p", "}">>
ParamQ == <<"{", "q", "}">>

\* HttpMethod, restricted to the two verbs the model registers and requests
\* (put, delete and patch differ from get and post in the method alone).
Methods == {"Get", "Post"}

\* str::starts_with / str::ends_with for a one-character pattern.
starts_with(s, c) == Len(s) > 0 /\ s[1] = c
ends_with(s, c) == Len(s) > 0 /\ s[Len(s)] = c

\* str::trim_end_matches: strips every trailing repetition of c.
RECURSIVE trim_end_matches(_, _)
trim_end_matches(s, c) ==
    IF ends_with(s, c) THEN trim_end_matches(SubSeq(s, 1, Len(s) - 1), c) ELSE s

\* str::trim_start_matches: strips every leading repetition of c.
RECURSIVE trim_start_matches(_, _)
trim_start_matches(s, c) ==
    IF starts_with(s, c) THEN trim_start_matches(SubSeq(s, 2, Len(s)), c) ELSE s

\* str::split: the pieces between occurrences of c; the empty string splits
\* into one empty piece.
RECURSIVE split(_, _)
split(s, c) ==
    IF \E i \in DOMAIN s : s[i] = c
      THEN LET i == CHOOSE k \in DOMAIN s :
                        s[k] = c /\ \A l \in 1 .. k - 1 : s[l] # c
           IN <<SubSeq(s, 1, i - 1)>> \o split(SubSeq(s, i + 1, Len(s)), c)
      ELSE <<s>>

\* Faulty variant: a normalisation that leaves trailing slashes in place.
Segments_keep_trailing(path) == split(trim_start_matches(path, "/"), "/")

\* path.trim_end_matches("/").trim_start_matches("/").split("/"), as written
\* in Route::new and again in Router::handle_request.
Segments(path) == split(trim_start_matches(trim_end_matches(path, "/"), "/"), "/")

\* Route::new.
Route_new(method, path, handler) ==
    [method |-> method, path |-> Segments(path), handler |-> handler]

\* `self.path[i].starts_with("{") && self.path[i].ends_with("}")`
IsParam(seg) == starts_with(seg, "{") /\ ends_with(seg, "}")

\* Faulty variant: compare_path_at without the parameter test.
compare_path_at_literal(route, seg, index) ==
    IF Len(route.path) < index THEN FALSE
    ELSE route.path[index] = seg

\* Route::compare_path_at, index counted from 1.
compare_path_at(route, seg, index) ==
    IF Len(route.path) < index THEN FALSE
    ELSE IF IsParam(route.path[index]) THEN TRUE
    ELSE route.path[index] = seg

\* Route::matches: the positions at which the route's segment and the path's
\* segment are the same string.
matches(route, path) ==
    Cardinality({i \in DOMAIN route.path : i \in DOMAIN path /\ path[i] = route.path[i]})

\* Route::set_path_params: the map built by inserting, position by position,
\* the parameter's name (braces trimmed) with the path's segment; a later
\* insert under the same name overwrites.
ParamName(seg) == trim_end_matches(trim_start_matches(seg, "{"), "}")

\* Faulty variant: an insert that keeps the first value under a name.
set_path_params_first(route, path) ==
    LET at == {i \in DOMAIN path : IsParam(route.path[i])}
        names == {ParamName(route.path[i]) : i \in at}
        first(n) == CHOOSE i \in at :
                      /\ ParamName(route.path[i]) = n
                      /\ \A k \in at : ParamName(route.path[k]) = n => i <= k
    IN [n \in names |-> path[first(n)]]

set_path_params(route, path) ==
    LET at == {i \in DOMAIN path : IsParam(route.path[i])}
        names == {ParamName(route.path[i]) : i \in at}
        last(n) == CHOOSE i \in at :
                      /\ ParamName(route.path[i]) = n
                      /\ \A k \in at : ParamName(route.path[k]) = n => k <= i
    IN [n \in names |-> path[last(n)]]

\* Faulty variant: a max_by that keeps the first of several equal maxima.
RECURSIVE max_by_first(_, _)
max_by_first(r, path) ==
    IF Len(r) = 0 THEN <<>>
    ELSE IF Len(r) = 1 THEN r
    ELSE LET rest == max_by_first(SubSeq(r, 1, Len(r) - 1), path)
             y == r[Len(r)]
         IN IF matches(rest[1], path) >= matches(y, path) THEN rest ELSE <<y>>

\* Iterator::max_by over r with the key Route::matches: None on an empty
\* sequence, else the maximum, the last one of several equal maxima.
RECURSIVE max_by(_, _)
max_by(r, path) ==
    IF Len(r) = 0 THEN <<>>
    ELSE IF Len(r) = 1 THEN r
    ELSE LET rest == max_by(SubSeq(r, 1, Len(r) - 1), path)
             y == r[Len(r)]
         IN IF matches(rest[1], path) > matches(y, path) THEN rest ELSE <<y>>

\* The loop of get_route from position i on: retain the routes that compare
\* at i, return None as soon as none is left.
RECURSIVE retain_from(_, _, _)
retain_from(r, path, i) ==
    IF i > Len(path) THEN max_by(r, path)
    ELSE LET kept == SelectSeq(r, LAMBDA x : compare_path_at(x, path[i], i))
         IN IF kept = <<>> THEN <<>> ELSE retain_from(kept, path, i + 1)

\* Faulty variant: get_route whose first retain forgets the segment count.
get_route_any_length(rs, method, path) ==
    retain_from(SelectSeq(rs, LAMBDA x : x.method = method), path, 1)

\* Router::get_route: <<>> for None, <<route>> for Some(route).
get_route(rs, method, path) ==
    retain_from(SelectSeq(rs, LAMBDA x : x.method = method /\ Len(x.path) = Len(path)),
                path, 1)

\* The strings a path is written as: its segments joined by "/", with or
\* without a leading and a trailing "/".
RECURSIVE Join(_)
Join(segs) ==
    IF Len(segs) = 0 THEN <<>>
    ELSE IF Len(segs) = 1 THEN segs[1]
    ELSE segs[1] \o <<"/">> \o Join(Tail(segs))

Spell(segs, lead, trail) ==
    (IF lead THEN <<"/">> ELSE <<>>) \o Join(segs) \o (IF trail THEN <<"/">> ELSE <<>>)

SeqsUpTo(S, n) == UNION {[1 .. k -> S] : k \in 0 .. n}

\* The patterns routes are registered with: up to two segments, each the
\* literal or one of two parameters, in the four spellings.
Patterns ==
    {Spell(segs, lead, trail) :
        segs \in SeqsUpTo({SegA, ParamP, ParamQ}, 2), lead \in BOOLEAN, trail \in BOOLEAN}

\* The paths requests arrive with, in origin form (a leading "/" before
\* each segment; "/" alone for no segment); a segment may be spelled like a
\* parameter.
RequestPaths ==
    {Spell(segs, TRUE, FALSE) : segs \in SeqsUpTo({SegA, ParamQ}, MaxSegs)}

\* Faulty variant: the no-match response sent with another status.
NotFound_as_ok == "200 OK"

\* HttpStatus::NotFound as Display prints it, and the body handle_request sends.
NotFound == "404 Not Found"
NotFoundBody == <<"N", "o", "t", " ", "F", "o", "u", "n", "d">>

\* Context::new around a fresh writer, before any request is routed.
ContextStart ==
    /\ rpc = "setup"
    /\ request = [method |-> "Get", path |-> <<>>]
    /\ selected = <<>>
    /\ path_params = <<>>
    /\ invoked = <<>>
    /\ response_headers = <<>>
    /\ written = <<>>
    /\ wire = <<>>

\* Router::new: no route yet.
RouterStart == routes = <<>> /\ ContextStart

\* `self.routes.push(Route::new(method, path, handler))`.  The handler is
\* named by the position it is registered at.
push(rs, method, path) == Append(rs, Route_new(method, path, Len(rs) + 1))

\* Router::get.
Router_get(path) ==
    /\ rpc = "setup"
    /\ Len(routes) < MaxRoutes
    /\ routes' = push(routes, "Get", path)
    /\ UNCHANGED <<rpc, request, selected, path_params, invoked,
                   response_headers, written, wire>>
    /\ UNCHANGED <<poolVars, connVars>>

\* Router::post.
Router_post(path) ==
    /\ rpc = "setup"
    /\ Len(routes) < MaxRoutes
    /\ routes' = push(routes, "Post", path)
    /\ UNCHANGED <<rpc, request, selected, path_params, invoked,
                   response_headers, written, wire>>
    /\ UNCHANGED <<poolVars, connVars>>

\* str::len: the bytes of a string in UTF-8.  Every character the model uses
\* is one byte long, but U+FFFD, which takes three.
RECURSIVE ByteLen(_)
ByteLen(s) ==
    IF s = <<>> THEN 0
    ELSE (IF Head(s) = "U+FFFD" THEN 3 ELSE 1) + ByteLen(Tail(s))

\* The byte lengths of the fixed strings a response is made of.
StrLen(s) ==
    CASE s = "HTTP/1.1" -> 8
      [] s = "200 OK" -> 6
      [] s = "400 Bad Request" -> 15
      [] s = "404 Not Found" -> 13
      [] s = "500 Internal Server Error" -> 25
      [] s = "Content-Type" -> 12
      [] s = "Content-Length" -> 14
      [] s = "content-length" -> 14
      [] s = "text/plain" -> 10
      [] s = "application/json" -> 16
      [] s = "text/html" -> 9
      [] s = "X-Id" -> 4
      [] s = "a" -> 1
      [] s = "b" -> 1

\* usize::to_string: the number of decimal digits of n.
RECURSIVE Digits(_)
Digits(n) == IF n < 10 THEN 1 ELSE 1 + Digits(n \div 10)

\* The bytes of one header line, "{key}: {value}\r\n".
HeaderLineLen(k, v) ==
    StrLen(k) + 2
        + (IF k \in {"Content-Length", "content-length"} THEN Digits(v) ELSE StrLen(v))
        + 2

RECURSIVE HeadersLen(_, _)
HeadersLen(h, keys) ==
    IF keys = {} THEN 0
    ELSE LET k == CHOOSE x \in keys : TRUE
         IN HeaderLineLen(k, h[k]) + HeadersLen(h, keys \ {k})

\* The length of the string send_response builds: the status line, the header
\* lines (in whatever order the map yields them), the blank line, the body.
ResponseLen(r) ==
    StrLen("HTTP/1.1") + 1 + StrLen(r.status) + 2
        + HeadersLen(r.headers, DOMAIN r.headers) + 2 + ByteLen(r.body)

\* What one call of io::Write::write may answer when offered total bytes:
\* Ok(total), Ok(n) with fewer bytes taken (here all but one), or Err.  A
\* Vec<u8> writer always answers Ok(total).
WriteOutcomes == {"all", "short", "err"}

Accepted(outcome, total) ==
    CASE outcome = "all" -> total
      [] outcome = "short" -> total - 1
      [] outcome = "err" -> 0

\* send_response's single `self.writer.write(response.as_bytes())`: the call
\* is logged with what the writer took; an Err is printed, Ok(n) is dropped.
writer_write(w, response, outcome) ==
    Append(w, [total |-> ResponseLen(response),
               accepted |-> Accepted(outcome, ResponseLen(response)),
               err |-> outcome = "err"])

\* Faulty variant: a Content-Length already among the headers is kept.
Context_string_stale(headers, status, body) ==
    LET h == [k \in DOMAIN headers \cup {"Content-Type", "Content-Length"} |->
                 IF k = "Content-Type" THEN "text/plain"
                 ELSE IF k = "Content-Length" /\ k \notin DOMAIN headers THEN ByteLen(body)
                 ELSE headers[k]]
    IN [headers |-> h,
        response |-> [status |-> status, headers |-> h,
                      body |-> IF h["Content-Length"] # 0 THEN body ELSE <<>>]]

\* Context::string followed by send_response: the two headers are inserted
\* (overwriting), the response is written with every header, and with the
\* body unless Content-Length is "0".
Context_string(headers, status, body) ==
    LET h == [k \in DOMAIN headers \cup {"Content-Type", "Content-Length"} |->
                 IF k = "Content-Type" THEN "text/plain"
                 ELSE IF k = "Content-Length" THEN ByteLen(body)
                 ELSE headers[k]]
    IN [headers |-> h,
        response |-> [status |-> status, headers |-> h,
                      body |-> IF h["Content-Length"] # 0 THEN body ELSE <<>>]]

\* Faulty variant: a Context that writes nothing once it has written.
ctx_string_once(status, body, outcome) ==
    LET out == Context_string(response_headers, status, body)
    IN IF written # <<>> THEN UNCHANGED <<response_headers, written, wire>>
       ELSE /\ response_headers' = out.headers
            /\ written' = Append(written, out.response)
            /\ wire' = writer_write(wire, out.response, outcome)

\* ctx.string(status, body) on the Context of the state, the writer answering
\* with outcome.
ctx_string(status, body, outcome) ==
    LET out == Context_string(response_headers, status, body)
    IN /\ response_headers' = out.headers
       /\ written' = Append(written, out.response)
       /\ wire' = writer_write(wire, out.response, outcome)

\* HttpStatus's Display, character by character.
StatusChars(status) ==
    CASE status = "200 OK" -> <<"2", "0", "0", " ", "O", "K">>
      [] status = "400 Bad Request" -> <<"4", "0", "0", " ", "B", "a", "d", " ", "R", "e", "q", "u", "e", "s", "t">>
      [] status = "404 Not Found" -> <<"4", "0", "4", " ", "N", "o", "t", " ", "F", "o", "u", "n", "d">>

\* serde_json's string escaping, for the characters of the model: a quote
\* and a backslash get a backslash in front.
RECURSIVE JsonEscape(_)
JsonEscape(s) ==
    IF s = <<>> THEN <<>>
    ELSE (IF Head(s) \in {"\"", "\\"} THEN <<"\\", Head(s)>> ELSE <<Head(s)>>)
             \o JsonEscape(Tail(s))

\* The string Context::json sends.  A serde_json Value is printed as it is
\* (body is then its compact text); anything else is wrapped in an object of
\* its status and its text.  The object's keys come sorted, or in insertion
\* order when serde_json is built with preserve_order.
json_text(status, body, is_value, sorted) ==
    LET b == <<"\"", "b", "o", "d", "y", "\"", ":", "\"">> \o JsonEscape(body) \o <<"\"">>
        s == <<"\"", "s", "t", "a", "t", "u", "s", "\"", ":", "\"">> \o StatusChars(status) \o <<"\"">>
    IN IF is_value THEN body
       ELSE IF sorted THEN <<"{">> \o b \o <<",">> \o s \o <<"}">>
       ELSE <<"{">> \o s \o <<",">> \o b \o <<"}">>

\* Context::json from the string r on, followed by send_response.
Context_json(headers, status, r) ==
    LET h == [k \in DOMAIN headers \cup {"Content-Type", "Content-Length"} |->
                 IF k = "Content-Type" THEN "application/json"
                 ELSE IF k = "Content-Length" THEN ByteLen(r)
                 ELSE headers[k]]
    IN [headers |-> h,
        response |-> [status |-> status, headers |-> h,
                      body |-> IF h["Content-Length"] # 0 THEN r ELSE <<>>]]

\* ctx.json(status, body) on the Context of the state.
ctx_json(status, r, outcome) ==
    LET out == Context_json(response_headers, status, r)
    IN /\ response_headers' = out.headers
       /\ written' = Append(written, out.response)
       /\ wire' = writer_write(wire, out.response, outcome)

\* Faulty variant: the 404 response written whether or not a route matched.
route_request_always_404(method, path, outcome) ==
    LET segs == Segments(path)
        route == get_route(routes, method, segs)
    IN /\ selected' = route
       /\ ctx_string(NotFound, NotFoundBody, outcome)
       /\ IF route # <<>>
            THEN /\ path_params' = set_path_params(route[1], segs)
                 /\ invoked' = Append(invoked, route[1].handler)
            ELSE UNCHANGED <<path_params, invoked>>

\* The body of Router::handle_request on the Context of the state: normalise
\* the path, get_route, then either set_path_params and the handler's call, or
\* the 404 response.
route_request(method, path, outcome) ==
    LET segs == Segments(path)
        route == get_route(routes, method, segs)
    IN /\ selected' = route
       /\ IF route # <<>>
            THEN /\ path_params' = set_path_params(route[1], segs)
                 /\ invoked' = Append(invoked, route[1].handler)
                 /\ UNCHANGED <<response_headers, written, wire>>
            ELSE /\ ctx_string(NotFound, NotFoundBody, outcome)
                 /\ UNCHANGED <<path_params, invoked>>

\* Router::handle_request on a Context holding the parsed request (method,
\* path) and writing into a Vec<u8>, as the tests of router.rs build it.
handle_request(method, path) ==
    /\ rpc = "setup"
    /\ rpc' = "served"
    /\ request' = [method |-> method, path |-> path]
    /\ route_request(method, path, "all")
    /\ UNCHANGED routes
    /\ UNCHANGED <<poolVars, connVars>>

\* ---------------------------------------------------------------------------
\* The request parser (server.rs).  A stream is the sequence of bytes the peer
\* sends before it closes its side; a byte is written as the character it
\* encodes, "CR" and "LF" for \r and \n, and "0xFF" for a byte that is not
\* valid UTF-8.
\* ---------------------------------------------------------------------------

\* char::is_whitespace, on the characters of the model.
Whitespace == {" ", "CR", "LF", "TAB"}

CRLF == <<"CR", "LF">>

\* `buffer.ends_with(b"\r\n\r\n")`.
has_suffix(s, pat) ==
    Len(s) >= Len(pat) /\ SubSeq(s, Len(s) - Len(pat) + 1, Len(s)) = pat

\* Faulty variant: the bytes taken for characters as they are.
from_utf8_unchecked(bytes) == bytes

\* String::from_utf8_lossy: every invalid byte becomes U+FFFD.
from_utf8_lossy(bytes) ==
    [i \in DOMAIN bytes |-> IF bytes[i] = "0xFF" THEN "U+FFFD" ELSE bytes[i]]

\* str::trim.
RECURSIVE trim_start(_)
trim_start(s) ==
    IF s # <<>> /\ Head(s) \in Whitespace THEN trim_start(Tail(s)) ELSE s

RECURSIVE trim_end(_)
trim_end(s) ==
    IF s # <<>> /\ s[Len(s)] \in Whitespace
      THEN trim_end(SubSeq(s, 1, Len(s) - 1)) ELSE s

trim(s) == trim_end(trim_start(s))

\* str::split for a pattern of several characters.
RECURSIVE split_str(_, _)
split_str(s, pat) ==
    LET at == {i \in 1 .. Len(s) - Len(pat) + 1 : SubSeq(s, i, i + Len(pat) - 1) = pat}
    IN IF at = {} THEN <<s>>
       ELSE LET i == CHOOSE k \in at : \A l \in at : k <= l
            IN <<SubSeq(s, 1, i - 1)>> \o split_str(SubSeq(s, i + Len(pat), Len(s)), pat)

\* str::split_whitespace: the non-empty runs of non-whitespace characters.
RECURSIVE split_whitespace(_)
split_whitespace(s) ==
    LET t == trim_start(s)
        ws == {i \in DOMAIN t : t[i] \in Whitespace}
        n == IF ws = {} THEN Len(t) + 1 ELSE CHOOSE k \in ws : \A l \in ws : k <= l
    IN IF t = <<>> THEN <<>>
       ELSE <<SubSeq(t, 1, n - 1)>> \o split_whitespace(SubSeq(t, n, Len(t)))

\* str::split_once: <<before, after>> the first c, or <<>> for None.
split_once(s, c) ==
    LET at == {i \in DOMAIN s : s[i] = c}
    IN IF at = {} THEN <<>>
       ELSE LET i == CHOOSE k \in at : \A l \in at : k <= l
            IN <<SubSeq(s, 1, i - 1), SubSeq(s, i + 1, Len(s))>>

\* HashMap::insert: the value under an existing key is overwritten.
insert(h, k, v) == [x \in DOMAIN h \cup {k} |-> IF x = k THEN v ELSE h[x]]

\* The loop over the head's lines: a line without a colon is skipped, the
\* key is kept as it is, the value is trimmed.
RECURSIVE insert_headers(_, _)
insert_headers(h, lines) ==
    IF lines = <<>> THEN h
    ELSE LET kv == split_once(Head(lines), ":")
         IN insert_headers(IF kv = <<>> THEN h ELSE insert(h, kv[1], trim(kv[2])),
                           Tail(lines))

DigitChars == {"0", "1", "2", "3", "4", "5", "6", "7", "8", "9"}

DigitValue(c) ==
    CASE c = "0" -> 0 [] c = "1" -> 1 [] c = "2" -> 2 [] c = "3" -> 3
      [] c = "4" -> 4 [] c = "5" -> 5 [] c = "6" -> 6 [] c = "7" -> 7
      [] c = "8" -> 8 [] c = "9" -> 9

\* a < b for two decimal numerals without leading zeros.
DecLess(a, b) ==
    \/ Len(a) < Len(b)
    \/ /\ Len(a) = Len(b)
       /\ \E i \in DOMAIN a :
             /\ DigitValue(a[i]) < DigitValue(b[i])
             /\ \A j \in 1 .. i - 1 : a[j] = b[j]

\* usize::MAX and isize::MAX of a 64-bit target, as numerals.
UsizeMax == <<"1", "8", "4", "4", "6", "7", "4", "4", "0", "7", "3", "7", "0", "9", "5", "5", "1", "6", "1", "5">>

IsizeMax == <<"9", "2", "2", "3", "3", "7", "2", "0", "3", "6", "8", "5", "4", "7", "7", "5", "8", "0", "7">>

\* str::parse::<usize>: an optional "+", then one or more decimal digits, the
\* number no larger than usize::MAX.  The result is the numeral without its
\* leading zeros (the empty numeral is zero).
parse_usize(v) ==
    LET d == IF starts_with(v, "+") THEN Tail(v) ELSE v
        n == trim_start_matches(d, "0")
    IN IF d = <<>> \/ \E i \in DOMAIN d : d[i] \notin DigitChars
         THEN [ok |-> FALSE]
       ELSE IF DecLess(UsizeMax, n) THEN [ok |-> FALSE]
       ELSE [ok |-> TRUE, numeral |-> n]

\* The number a numeral of at most nine digits stands for.
RECURSIVE Value(_)
Value(n) ==
    IF n = <<>> THEN 0
    ELSE 10 * Value(SubSeq(n, 1, Len(n) - 1)) + DigitValue(n[Len(n)])

\* Whether a stream that has `available` bytes left can fill a buffer of the
\* size the numeral names.
Fills(available, n) == Len(n) <= 9 /\ Value(n) <= available

\* The five verbs as HttpMethod::from_string spells them.
GET == <<"G", "E", "T">>

POST == <<"P", "O", "S", "T">>

PUT == <<"P", "U", "T">>

DELETE == <<"D", "E", "L", "E", "T", "E">>

PATCH == <<"P", "A", "T", "C", "H">>

\* Faulty variant: a verb that is not known is taken for GET.
HttpMethod_from_string_lenient(verb) ==
    CASE verb = POST -> [ok |-> TRUE, method |-> "Post"]
      [] verb = PUT -> [ok |-> TRUE, method |-> "Put"]
      [] verb = DELETE -> [ok |-> TRUE, method |-> "Delete"]
      [] verb = PATCH -> [ok |-> TRUE, method |-> "Patch"]
      [] OTHER -> [ok |-> TRUE, method |-> "Get"]

\* HttpMethod::from_string: the five verbs, spelled in upper case.
HttpMethod_from_string(verb) ==
    CASE verb = GET -> [ok |-> TRUE, method |-> "Get"]
      [] verb = POST -> [ok |-> TRUE, method |-> "Post"]
      [] verb = PUT -> [ok |-> TRUE, method |-> "Put"]
      [] verb = DELETE -> [ok |-> TRUE, method |-> "Delete"]
      [] verb = PATCH -> [ok |-> TRUE, method |-> "Patch"]
      [] OTHER -> [ok |-> FALSE, err |-> "InvalidMethod"]

\* The position of the last byte of the first \r\n\r\n of s, or 0.
HeadEnd(s) ==
    LET at == {i \in DOMAIN s : has_suffix(SubSeq(s, 1, i), CRLF \o CRLF)}
    IN IF at = {} THEN 0 ELSE CHOOSE k \in at : \A l \in at : k <= l

\* Server::read_head: bytes are read one at a time until the buffer ends with
\* \r\n\r\n; running out of bytes first is a StreamError.
read_head(s) ==
    IF HeadEnd(s) = 0
      THEN [ok |-> FALSE, err |-> "StreamError", consumed |-> Len(s)]
      ELSE [ok |-> TRUE, consumed |-> HeadEnd(s),
            head |-> trim(from_utf8_lossy(SubSeq(s, 1, HeadEnd(s))))]

ContentLength == <<"C", "o", "n", "t", "e", "n", "t", "-", "L", "e", "n", "g", "t", "h">>

Failed(err, consumed) == [kind |-> "Err", err |-> err, consumed |-> consumed]

\* Server::handle_connection on the stream s.  The result is Ok with the
\* request, Err with the error, or a panic: `vec![0; content_length]` panics
\* with "capacity overflow" for a length above isize::MAX.
handle_connection(s) ==
    LET h == read_head(s)
        head_lines == split_str(h.head, CRLF)
        start_line == split_whitespace(Head(head_lines))
        headers == insert_headers(<<>>, Tail(head_lines))
        declared == ContentLength \in DOMAIN headers
        length == parse_usize(headers[ContentLength])
        n == Value(length.numeral)
        method == HttpMethod_from_string(start_line[1])
    IN IF ~h.ok THEN Failed(h.err, h.consumed)
       ELSE IF Len(start_line) < 2 THEN Failed("InvalidRequest", h.consumed)
       ELSE IF declared /\ ~length.ok THEN Failed("InvalidRequest", h.consumed)
       ELSE IF declared /\ DecLess(IsizeMax, length.numeral)
         THEN [kind |-> "Panic", consumed |-> h.consumed]
       ELSE IF declared /\ ~Fills(Len(s) - h.consumed, length.numeral)
         THEN Failed("StreamError", Len(s))
       ELSE IF ~method.ok
         THEN Failed(method.err, h.consumed + (IF declared THEN n ELSE 0))
       ELSE [kind |-> "Ok",
             consumed |-> h.consumed + (IF declared THEN n ELSE 0),
             request |-> [method |-> method.method,
                          path |-> start_line[2],
                          headers |-> headers,
                          body |-> IF declared
                                     THEN from_utf8_lossy(SubSeq(s, h.consumed + 1,
                                                                 h.consumed + n))
                                     ELSE <<>>]]

\* No connection: the listener has accepted nothing.
ConnStart ==
    /\ stream = <<>>
    /\ position = 0
    /\ cpc = "listen"
    /\ parsed = <<>>
    /\ hcalls = 0

RouterInit == PoolInit /\ size = 1 /\ RouterStart /\ ConnStart

RouterNext ==
    \/ \E path \in Patterns : Router_get(path)
    \/ \E path \in Patterns : Router_post(path)
    \/ \E method \in Methods, path \in RequestPaths : handle_request(method, path)

RouterSpec == RouterInit /\ [][RouterNext]_vars

\* ---------------------------------------------------------------------------
\* One connection's job (Server::start, the closure given to pool.execute).
\* ---------------------------------------------------------------------------

\* The requests peers send: a start line, header lines, the blank line and
\* some bytes after it, or a start line the peer stops after.
Verbs == {GET, POST, DELETE, <<"F", "O", "O">>, <<"g", "e", "t">>}

Version == <<"H", "T", "T", "P", "/", "1", ".", "1">>

StartLine(verb, path) == verb \o <<" ">> \o path \o <<" ">> \o Version

StartLines ==
    {StartLine(verb, path) : verb \in Verbs, path \in {<<"/", "a">>, <<"/", "b">>}} \cup {GET}

DigitOf(n) == CHOOSE c \in DigitChars : DigitValue(c) = n

HeaderLine(key, value) == key \o <<":", " ">> \o value

HeaderBlocks ==
    {<<>>,
     <<HeaderLine(<<"c", "o", "n", "t", "e", "n", "t", "-", "l", "e", "n", "g", "t", "h">>, <<"1">>)>>,
     <<HeaderLine(ContentLength, <<"+", "1">>)>>,
     <<HeaderLine(ContentLength, <<"x">>)>>,
     <<HeaderLine(ContentLength, <<"1">>), HeaderLine(ContentLength, <<"0">>)>>,
     <<<<"H", "o", "s", "t">>, ContentLength \o <<":", "1">>>>,
     <<HeaderLine(ContentLength, <<"9", "9", "9", "9", "9", "9", "9", "9", "9", "9", "9", "9", "9", "9", "9", "9", "9", "9", "9">>)>>}
        \cup {<<HeaderLine(ContentLength, <<DigitOf(n)>>)>> : n \in 0 .. MaxAvail}

RECURSIVE Lines(_)
Lines(block) ==
    IF block = <<>> THEN <<>> ELSE CRLF \o Head(block) \o Lines(Tail(block))

ConnStreams ==
    {line \o Lines(block) \o CRLF \o CRLF \o rest :
        line \in StartLines, block \in HeaderBlocks,
        rest \in SeqsUpTo({"x", "0xFF"}, MaxAvail)}
    \cup {line \o CRLF : line \in StartLines}

\* The routers the server is started with.
ConnRouters ==
    {<<>>,
     push(<<>>, "Get", <<"/", "a">>),
     push(push(<<>>, "Get", <<"/", "{", "q", "}">>), "Post", <<"/", "a">>)}

\* HttpStatus::BadRequest and HttpStatus::Ok as Display prints them.
BadRequest == "400 Bad Request"

Ok == "200 OK"

\* ApiErr's Display: the fixed texts, and for a StreamError the text of the
\* io::Error read_exact returns at the end of the stream.
ErrText(err) ==
    CASE err = "InvalidMethod" -> <<"I", "n", "v", "a", "l", "i", "d", " ", "m", "e", "t", "h", "o", "d", ".">>
      [] err = "InvalidRequest" -> <<"I", "n", "v", "a", "l", "i", "d", " ", "r", "e", "q", "u", "e", "s", "t", ".">>
      [] err = "StreamError" -> <<"f", "a", "i", "l", "e", "d", " ", "t", "o", " ", "f", "i", "l", "l", " ", "w", "h", "o", "l", "e", " ", "b", "u", "f", "f", "e", "r">>

\* `for stream in listener.incoming()`: a connection is accepted and its job
\* starts; the stream is what the peer sends, one of ConnStreams.
accept ==
    /\ cpc = "listen"
    /\ stream' \in ConnStreams
    /\ cpc' = "parse"
    /\ UNCHANGED <<position, parsed, hcalls>>
    /\ UNCHANGED <<poolVars, routerVars>>

\* `Server::handle_connection(&mut stream)` in the job.
job_parse ==
    /\ cpc = "parse"
    /\ LET r == handle_connection(stream)
       IN /\ parsed' = r
          /\ position' = r.consumed
          /\ cpc' = IF r.kind = "Panic" THEN "panicked" ELSE "dispatch"
    /\ UNCHANGED <<stream, hcalls>>
    /\ UNCHANGED <<poolVars, routerVars>>

\* The Ok arm: a Context around the stream, then router.handle_request, up to
\* the call of the matched handler or the 404 response.
job_ok(outcome) ==
    /\ cpc = "dispatch"
    /\ parsed.kind = "Ok"
    /\ rpc' = "served"
    /\ request' = [method |-> parsed.request.method, path |-> parsed.request.path]
    /\ route_request(parsed.request.method, parsed.request.path, outcome)
    /\ cpc' = IF get_route(routes, parsed.request.method,
                           Segments(parsed.request.path)) # <<>>
                THEN "handler" ELSE "done"
    /\ UNCHANGED routes
    /\ UNCHANGED <<stream, position, parsed, hcalls>>
    /\ UNCHANGED poolVars

\* The Err arm: a Context around the stream and
\* `ctx.string(HttpStatus::BadRequest, &e.to_string())`.
job_err(outcome) ==
    /\ cpc = "dispatch"
    /\ parsed.kind = "Err"
    /\ ctx_string(BadRequest, ErrText(parsed.err), outcome)
    /\ cpc' = "done"
    /\ UNCHANGED <<routes, rpc, request, selected, path_params, invoked>>
    /\ UNCHANGED <<stream, position, parsed, hcalls>>
    /\ UNCHANGED poolVars

\* The matched handler calls a terminal write, ctx.string(HttpStatus::Ok, "ok").
handler_string(outcome) ==
    /\ cpc = "handler"
    /\ hcalls < MaxWrites
    /\ hcalls' = hcalls + 1
    /\ ctx_string(Ok, <<"o", "k">>, outcome)
    /\ UNCHANGED <<routes, rpc, request, selected, path_params, invoked>>
    /\ UNCHANGED <<stream, position, cpc, parsed>>
    /\ UNCHANGED poolVars

\* Faulty variant: a job that goes back to parsing when bytes are left unread.
handler_return_keep_alive ==
    /\ cpc = "handler"
    /\ cpc' = IF position < Len(stream) THEN "parse" ELSE "done"
    /\ UNCHANGED <<stream, position, parsed, hcalls>>
    /\ UNCHANGED <<poolVars, routerVars>>

\* The matched handler returns, and with it handle_request and the job.
handler_return ==
    /\ cpc = "handler"
    /\ cpc' = "done"
    /\ UNCHANGED <<stream, position, parsed, hcalls>>
    /\ UNCHANGED <<poolVars, routerVars>>

ConnInit == PoolInit /\ size = 1 /\ routes \in ConnRouters /\ ContextStart /\ ConnStart

ConnNext ==
    \/ accept
    \/ job_parse
    \/ \E outcome \in WriteOutcomes : job_ok(outcome)
    \/ \E outcome \in WriteOutcomes : job_err(outcome)
    \/ \E outcome \in WriteOutcomes : handler_string(outcome)
    \/ handler_return

\* One connection served by a server started with one of ConnRouters.
ConnSpec == ConnInit /\ [][ConnNext]_vars

\* ---------------------------------------------------------------------------
\* A Context in the hands of a handler (context.rs): response headers are
\* added and terminal writes are called, in any order, on a writer that takes
\* all it is offered.
\* ---------------------------------------------------------------------------

\* The headers a handler adds, the texts it sends with string, and the
\* bodies it sends with json: a Value printed as {} and a text with a quote.
AddedHeaders ==
    {<<"X-Id", "a">>, <<"X-Id", "b">>, <<"Content-Type", "text/html">>,
     <<"Content-Length", 7>>, <<"content-length", 7>>}

StringBodies == {<<>>, <<"o", "k">>, <<"U+FFFD">>}

JsonBodies == {[text |-> <<"{", "}">>, is_value |-> TRUE],
               [text |-> <<"a", "\"">>, is_value |-> FALSE]}

\* Context::add_response_header.
add_response_header(k, v) ==
    /\ response_headers' = insert(response_headers, k, v)
    /\ UNCHANGED <<routes, rpc, request, selected, path_params, invoked, written, wire>>
    /\ UNCHANGED <<poolVars, connVars>>

\* Context::string.
string(status, body) ==
    /\ hcalls < MaxWrites
    /\ hcalls' = hcalls + 1
    /\ ctx_string(status, body, "all")
    /\ UNCHANGED <<routes, rpc, request, selected, path_params, invoked>>
    /\ UNCHANGED <<stream, position, cpc, parsed>>
    /\ UNCHANGED poolVars

\* Context::json.
json(status, body, is_value, sorted) ==
    /\ hcalls < MaxWrites
    /\ hcalls' = hcalls + 1
    /\ ctx_json(status, json_text(status, body, is_value, sorted), "all")
    /\ UNCHANGED <<routes, rpc, request, selected, path_params, invoked>>
    /\ UNCHANGED <<stream, position, cpc, parsed>>
    /\ UNCHANGED poolVars

ContextInit == PoolInit /\ size = 1 /\ RouterStart /\ ConnStart

ContextNext ==
    \/ \E h \in AddedHeaders : add_response_header(h[1], h[2])
    \/ \E body \in StringBodies : string(Ok, body)
    \/ \E b \in JsonBodies, sorted \in BOOLEAN : json(Ok, b.text, b.is_value, sorted)

ContextSpec == ContextInit /\ [][ContextNext]_vars

Init == PoolInit /\ RouterStart /\ ConnStart

\* One step of some worker thread's loop.
WorkerStep ==
    \/ \E w \in workers : worker_lock(w)
    \/ \E w \in workers : worker_recv(w)
    \/ \E w \in workers : worker_recv_err(w)
    \/ \E w \in workers : job_return(w, cur[w])
    \/ \E w \in workers : job_panic(w, cur[w])

Next ==
    \/ \E k \in JobKinds : execute(k)
    \/ \E w \in workers : worker_lock(w)
    \/ \E w \in workers : worker_recv(w)
    \/ \E w \in workers : worker_recv_err(w)
    \/ \E w \in workers : job_return(w, cur[w])
    \/ \E w \in workers : job_panic(w, cur[w])
    \/ drop_sender
    \/ drop_join

Spec == Init /\ [][Next]_vars

\* The pool when every job terminates (returns or panics), its worker threads
\* scheduled fairly: a worker that can take a step eventually takes one.  The
\* caller is not obliged to call execute or to drop the pool.
TerminatingKinds == JobKinds \ {"stall"}

NextTerm ==
    \/ \E k \in TerminatingKinds : execute(k)
    \/ \E w \in workers : worker_lock(w)
    \/ \E w \in workers : worker_recv(w)
    \/ \E w \in workers : worker_recv_err(w)
    \/ \E w \in workers : job_return(w, cur[w])
    \/ \E w \in workers : job_panic(w, cur[w])
    \/ drop_sender
    \/ drop_join

FairSpec == Init /\ [][NextTerm]_vars /\ WF_vars(WorkerStep)

\* The pool with jobs of every kind, those that never return included, its
\* worker threads scheduled fairly.
StallSpec == Init /\ [][Next]_vars /\ WF_vars(WorkerStep)

\* ----------------------------------------------------- thread pool claims

Submitted == 1 .. Len(kind)

Live == {w \in workers : ~Ended(pc, w)}

\* C1: every job submitted through execute is run exactly once: at any moment
\* a submitted job is either still queued and not yet run, or has left the
\* queue and been called exactly once; none is run twice and none is lost.
C1_EveryJobRunExactlyOnce ==
    \A j \in Submitted :
        \/ j \in Range(queue) /\ runs[j] = 0
        \/ j \notin Range(queue) /\ runs[j] = 1

\* C2: a failing job is isolated: while the pool is not dropped, as many
\* workers are alive as ThreadPool::new created, whatever jobs have failed.
C2_WorkersSurviveFailingJobs ==
    sender = "open" => Cardinality(Live) = Cardinality(workers)

\* C3: once drop() is over (control has left it), every job submitted before
\* it has run to its end and every worker thread has ended; and a worker that
\* left its loop did so with the queue closed and empty.
C3_DropWaitsForAllJobs ==
    /\ dpc \in {"returned", "panicked"} =>
          /\ \A j \in Submitted : j \in finished \cup failed
          /\ \A w \in workers : Ended(pc, w)
    /\ \A w \in workers : pc[w] = "exited" => sender = "dropped" /\ queue = <<>>

\* C4: new(size) creates max(1, size) workers, and at no moment do more jobs
\* run than there are workers.
C4_WorkersAndConcurrency ==
    /\ Cardinality(workers) = (IF size < 1 THEN 1 ELSE size)
    /\ Cardinality(running) <= Cardinality(workers)

\* C4 witness: new(0) made one worker, it is busy, and another job waits.
C4_Witness ==
    /\ size = 0
    /\ Cardinality(running) = Cardinality(workers)
    /\ queue # <<>>

\* C5: under fair scheduling of the workers, with every job terminating,
\* every job submitted through execute is eventually run.
C5_EveryJobEventuallyRun ==
    \A j \in 1 .. MaxJobs : (j \in Submitted) ~> (j \in Submitted /\ runs[j] >= 1)

\* C6: while the pool is not dropped execute succeeds: the channel still has
\* its Receiver, and no call of execute has panicked the caller.
C6_ExecuteAlwaysSucceeds ==
    /\ caller = "running"
    /\ dpc = "alive" => ~ReceiverDropped(pc)

\* C7: jobs are dequeued in submission order: the i-th job any worker
\* receives is the i-th job submitted, so no job starts before every job
\* submitted earlier has been dequeued.
C7_DequeueInSubmissionOrder ==
    \A i \in DOMAIN deq : deq[i] = i

\* C7 witness: two workers took jobs 1 and 2 in order, and job 2 completed
\* first (completion order is free).
C7_Witness ==
    /\ Len(deq) >= 2
    /\ 2 \in finished
    /\ 1 \in running

\* ------------------------------------------------------------ router claims

\* The incoming path as handle_request normalises it.
ReqSegs == Segments(request.path)

\* A route matches a request: same method, same segment count, and at every
\* position a parameter or the path's own segment.
Matching(route) ==
    /\ route.method = request.method
    /\ Len(route.path) = Len(ReqSegs)
    /\ \A i \in DOMAIN route.path : IsParam(route.path[i]) \/ route.path[i] = ReqSegs[i]

\* The literal (non-parameter) segments of a route equal to the path's.
LiteralMatches(route) ==
    Cardinality({i \in DOMAIN route.path :
                    /\ i \in DOMAIN ReqSegs
                    /\ ~IsParam(route.path[i])
                    /\ route.path[i] = ReqSegs[i]})

MatchingAt == {i \in DOMAIN routes : Matching(routes[i])}

\* C8: the route get_route selects has exactly as many segments as the
\* normalised incoming path.
C8_SelectedHasPathLength ==
    (rpc = "served" /\ selected # <<>>) => Len(selected[1].path) = Len(ReqSegs)

\* C8 witness: a route was selected although a longer route of the same
\* method, registered too, agrees with the path on all of the path's segments.
C8_Witness ==
    /\ rpc = "served"
    /\ selected # <<>>
    /\ \E i \in DOMAIN routes :
          /\ routes[i].method = request.method
          /\ Len(routes[i].path) > Len(ReqSegs)
          /\ \A k \in DOMAIN ReqSegs : compare_path_at(routes[i], ReqSegs[k], k)

\* C9: among the matching routes, the selected one has the most literal
\* segments equal to the path's, whatever the registration order.
C9_SelectsMostLiteralMatches ==
    (rpc = "served" /\ selected # <<>>) =>
        \A i \in MatchingAt : LiteralMatches(routes[i]) <= LiteralMatches(selected[1])

\* C10 as claimed: of the matching routes that tie with the selected one on
\* literal-segment matches, the selected one is the first registered.
C10_TieSelectsFirstRegistered ==
    (rpc = "served" /\ selected # <<>>) =>
        \A i \in MatchingAt :
            LiteralMatches(routes[i]) = LiteralMatches(selected[1])
                => selected[1].handler <= i

\* The matching routes with the highest Route::matches score.
TopScored ==
    {i \in MatchingAt : \A k \in MatchingAt : matches(routes[k], ReqSegs) <= matches(routes[i], ReqSegs)}

\* C10 amended: of the matching routes that tie for the highest
\* Route::matches score, get_route selects the one registered last.
C10_TieSelectsLastRegistered ==
    (rpc = "served" /\ MatchingAt # {}) =>
        /\ selected # <<>>
        /\ selected[1] = routes[selected[1].handler]
        /\ selected[1].handler \in TopScored
        /\ \A i \in TopScored : i <= selected[1].handler

\* C10 witness: two different routes tie for the highest score and the later
\* one is selected.
C10_Witness ==
    /\ rpc = "served"
    /\ selected # <<>>
    /\ \E i \in TopScored : i < selected[1].handler /\ routes[i].path # selected[1].path

\* C11: get_route returns a route exactly when some registered route matches
\* the request (method, segment count, every position a parameter or the
\* path's segment), and the route returned is a registered one that matches.
C11_RouteIffMatching ==
    rpc = "served" =>
        /\ (selected # <<>>) <=> (MatchingAt # {})
        /\ selected # <<>> =>
              /\ \E i \in DOMAIN routes : routes[i] = selected[1]
              /\ Matching(selected[1])

\* C11 witness: a route with a parameter was returned while a route of the
\* other method, registered too, fits the path as well.
C11_Witness ==
    /\ rpc = "served"
    /\ selected # <<>>
    /\ \E i \in DOMAIN selected[1].path : IsParam(selected[1].path[i])
    /\ \E i \in DOMAIN routes :
          /\ routes[i].method # request.method
          /\ Len(routes[i].path) = Len(ReqSegs)
          /\ \A k \in DOMAIN ReqSegs : compare_path_at(routes[i], ReqSegs[k], k)

\* The parameter positions of a route, and the name written between the
\* braces of a parameter segment.
ParamAt(route) == {i \in DOMAIN route.path : IsParam(route.path[i])}

Between(seg) == SubSeq(seg, 2, Len(seg) - 1)

\* C12 as claimed: after a match path_params holds exactly one binding for
\* each parameter position of the winning route, the name between the braces
\* mapped to the path's segment at that position, and nothing else.
C12_OneBindingPerParameter ==
    (rpc = "served" /\ selected # <<>>) =>
        /\ Cardinality(DOMAIN path_params) = Cardinality(ParamAt(selected[1]))
        /\ \A i \in ParamAt(selected[1]) :
              /\ Between(selected[1].path[i]) \in DOMAIN path_params
              /\ path_params[Between(selected[1].path[i])] = ReqSegs[i]

\* C12 amended: after a match path_params holds exactly one binding for each
\* parameter NAME of the winning route, mapped to the path's segment at the
\* last position carrying that name, and nothing else.
C12_OneBindingPerName ==
    (rpc = "served" /\ selected # <<>>) =>
        /\ DOMAIN path_params = {Between(selected[1].path[i]) : i \in ParamAt(selected[1])}
        /\ \A i \in ParamAt(selected[1]) :
              (\A k \in ParamAt(selected[1]) :
                    selected[1].path[k] = selected[1].path[i] => k <= i)
                 => path_params[Between(selected[1].path[i])] = ReqSegs[i]

\* C12 witness: the winning route has a literal and a parameter position, and
\* the map holds the parameter's binding alone.
C12_Witness ==
    /\ rpc = "served"
    /\ selected # <<>>
    /\ Cardinality(ParamAt(selected[1])) = 1
    /\ Len(selected[1].path) = 2
    /\ Cardinality(DOMAIN path_params) = 1

\* C13: when no route matches, no handler is invoked and exactly one response
\* is written: 404 Not Found, a non-empty body, Content-Length its length.
C13_NoMatchIs404 ==
    (rpc = "served" /\ selected = <<>>) =>
        /\ invoked = <<>>
        /\ Len(written) = 1
        /\ written[1].status = "404 Not Found"
        /\ written[1].body # <<>>
        /\ written[1].headers["Content-Length"] = Len(written[1].body)

\* C13 witness: routes are registered, none matches the request, and the 404
\* has been written.
C13_Witness ==
    /\ rpc = "served"
    /\ routes # <<>>
    /\ selected = <<>>
    /\ Len(written) = 1

\* ------------------------------------------------------- connection claims

\* The job has left handle_connection.
Parsed == cpc \in {"dispatch", "handler", "done", "panicked"}

\* Where the first \r\n\r\n of the stream ends (0 when there is none), and the
\* bytes the peer sent after it.
HeadLast ==
    LET at == {i \in 4 .. Len(stream) : SubSeq(stream, i - 3, i) = <<"CR", "LF", "CR", "LF">>}
    IN IF at = {} THEN 0 ELSE CHOOSE k \in at : \A l \in at : k <= l

Available == Len(stream) - HeadLast

\* What the head says: its start line's tokens, and the value of its last
\* header line named Content-Length (<<>> when there is none).
HeadLines == split_str(trim(SubSeq(stream, 1, HeadLast)), CRLF)

StartTokens == split_whitespace(Head(HeadLines))

Declares == ContentLength \in DOMAIN insert_headers(<<>>, Tail(HeadLines))

DeclaredLength == parse_usize(insert_headers(<<>>, Tail(HeadLines))[ContentLength])

\* C14 as claimed: a successful parse of a head declaring Content-Length n has
\* read the head and n bytes more and no further, and the body is those n
\* bytes; without Content-Length it has read the head only and the body is
\* empty.
C14_BodyIsTheBytesRead ==
    (Parsed /\ parsed.kind = "Ok") =>
        IF Declares
          THEN LET n == Value(DeclaredLength.numeral)
               IN /\ position = HeadLast + n
                  /\ parsed.request.body = SubSeq(stream, HeadLast + 1, HeadLast + n)
          ELSE /\ position = HeadLast
               /\ parsed.request.body = <<>>

\* C14 amended: as claimed, but the body is the n bytes decoded as UTF-8 with
\* U+FFFD in the place of every invalid byte.
C14_BodyIsTheBytesDecoded ==
    (Parsed /\ parsed.kind = "Ok") =>
        IF Declares
          THEN LET n == Value(DeclaredLength.numeral)
               IN /\ position = HeadLast + n
                  /\ Len(parsed.request.body) = n
                  /\ \A i \in 1 .. n :
                        parsed.request.body[i] =
                            IF stream[HeadLast + i] = "0xFF" THEN "U+FFFD"
                            ELSE stream[HeadLast + i]
          ELSE /\ position = HeadLast
               /\ parsed.request.body = <<>>

\* C14 witness: a parse succeeded with a body of one invalid byte, and a byte
\* of the stream was left unread.
C14_Witness ==
    /\ Parsed
    /\ parsed.kind = "Ok"
    /\ parsed.request.body = <<"U+FFFD">>
    /\ position < Len(stream)

\* C15: a head with a complete start line that declares Content-Length n,
\* with fewer than n bytes sent after the head, makes parsing fail with
\* StreamError.
C15_ShortBodyIsStreamError ==
    (/\ Parsed
     /\ HeadLast # 0
     /\ Len(StartTokens) >= 2
     /\ Declares
     /\ DeclaredLength.ok
     /\ ~Fills(Available, DeclaredLength.numeral))
        => (parsed.kind = "Err" /\ parsed.err = "StreamError")

\* The request is well formed but for its verb: a head, a start line of three
\* tokens, and either no Content-Length or one the bytes after the head fill.
WellFormedButVerb ==
    /\ HeadLast # 0
    /\ Len(StartTokens) = 3
    /\ Declares => (DeclaredLength.ok /\ Fills(Available, DeclaredLength.numeral))

\* C16: a request, well formed otherwise, whose verb is not one of the five
\* fails with InvalidMethod; the router is not consulted and no handler runs.
C16_UnknownVerbIsInvalidMethod ==
    (Parsed /\ WellFormedButVerb /\ StartTokens[1] \notin {GET, POST, PUT, DELETE, PATCH}) =>
        /\ parsed.kind = "Err"
        /\ parsed.err = "InvalidMethod"
        /\ rpc = "setup"
        /\ selected = <<>>
        /\ invoked = <<>>

\* C16 witness: the job of a request with an unknown verb is over on a server
\* that has a route for the request's path.
C16_Witness ==
    /\ cpc = "done"
    /\ parsed.kind = "Err"
    /\ parsed.err = "InvalidMethod"
    /\ \E i \in DOMAIN routes : routes[i].path = Segments(StartTokens[2])

\* C17: the status of the response to a failed parse is 500 for a
\* StreamError and 400 for InvalidMethod and InvalidRequest.
C17_StatusFollowsErrorKind ==
    (cpc = "done" /\ parsed.kind = "Err") =>
        written[1].status = IF parsed.err = "StreamError"
                              THEN "500 Internal Server Error"
                              ELSE "400 Bad Request"

\* C18: the response to a failed parse is sent as JSON, its body an object.
C18_ErrorBodyIsJson ==
    (cpc = "done" /\ parsed.kind = "Err") =>
        /\ written[1].headers["Content-Type"] = "application/json"
        /\ Head(written[1].body) = "{"
        /\ written[1].body[Len(written[1].body)] = "}"

\* C19: a job that is over has written one response when parsing failed or
\* no route matched, and otherwise as many as the handler's terminal writes;
\* at no time has the dispatcher written more than one itself.
C19_OneResponsePerJob ==
    /\ Len(written) - hcalls \in {0, 1}
    /\ cpc = "done" =>
          Len(written) = IF parsed.kind = "Err" \/ selected = <<>> THEN 1 ELSE hcalls

\* C19 witness: the job of a matched request is over, its handler having
\* called one terminal write.
C19_Witness ==
    /\ cpc = "done"
    /\ selected # <<>>
    /\ hcalls = 1
    /\ Len(written) = 1

\* C20: every write of a response either put the whole response on the wire
\* or failed.
C20_NoPartialResponse ==
    \A i \in DOMAIN wire : wire[i].err \/ wire[i].accepted = wire[i].total

\* --------------------------------------------------------- context claims

\* C21: in every response written, Content-Length is the byte length of the
\* body that follows the blank line, whatever headers were added before; so
\* the body is left out only when that length is 0.
C21_ContentLengthIsBodyLength ==
    \A i \in DOMAIN written :
        /\ written[i].headers["Content-Length"] = ByteLen(written[i].body)
        /\ wire[i].total = ResponseLen(written[i])

\* C21 witness: a response whose body is one character of three bytes was
\* written, and after it one with an empty body.
C21_Witness ==
    /\ Len(written) = 2
    /\ written[1].body = <<"U+FFFD">>
    /\ written[1].headers["Content-Length"] = 3
    /\ written[2].headers["Content-Length"] = 0
    /\ written[2].body = <<>>

\* C26: a terminal write is never refused for coming after another one: the
\* responses written are as many as the terminal writes called, each call
\* appends one response after those written before, and that response carries
\* the headers the Context holds at the call, those added since the last
\* write included.
C26_EveryTerminalWriteAppends ==
    /\ [](Len(written) = hcalls)
    /\ [][hcalls' = hcalls + 1 =>
            /\ Len(written') = Len(written) + 1
            /\ SubSeq(written', 1, Len(written)) = written
            /\ \A k \in DOMAIN response_headers \ {"Content-Type", "Content-Length"} :
                  /\ k \in DOMAIN written'[Len(written')].headers
                  /\ written'[Len(written')].headers[k] = response_headers[k]
            /\ wire'[Len(written')].accepted = ResponseLen(written'[Len(written')])]_vars

\* C26 witness: two responses were written on one Context, the second with a
\* header value set after the first was written.
C26_Witness ==
    /\ hcalls = 2
    /\ Len(written) = 2
    /\ "X-Id" \in DOMAIN written[1].headers
    /\ written[1].headers["X-Id"] = "a"
    /\ written[2].headers["X-Id"] = "b"

\* ------------------------------------------------- parser order, job order

\* A Content-Length value that spells a non-negative integer.
IsNumeral(v) ==
    LET d == IF starts_with(v, "+") THEN Tail(v) ELSE v
    IN d # <<>> /\ \A i \in DOMAIN d : d[i] \in DigitChars

DeclaredValue == insert_headers(<<>>, Tail(HeadLines))[ContentLength]

\* The first failure in the order claimed, "none" when there is none.
FirstFailure ==
    IF HeadLast = 0 THEN "StreamError"
    ELSE IF Len(StartTokens) < 2 THEN "InvalidRequest"
    ELSE IF Declares /\ ~IsNumeral(DeclaredValue) THEN "InvalidRequest"
    ELSE IF Declares /\ ~Fills(Available, DeclaredLength.numeral) THEN "StreamError"
    ELSE IF StartTokens[1] \notin {GET, POST, PUT, DELETE, PATCH} THEN "InvalidMethod"
    ELSE "none"

\* C22: handle_connection returns the first failure in the order: no
\* \r\n\r\n (StreamError), a start line of fewer than two tokens
\* (InvalidRequest), a Content-Length that is no number (InvalidRequest), a
\* body shorter than declared (StreamError), an unknown verb (InvalidMethod,
\* the declared body read by then); and Ok when there is none.
C22_FirstFailureInOrder ==
    Parsed =>
        IF FirstFailure = "none" THEN parsed.kind = "Ok"
        ELSE /\ parsed.kind = "Err"
             /\ parsed.err = FirstFailure
             /\ FirstFailure = "InvalidMethod" =>
                   position = HeadLast + (IF Declares THEN Value(DeclaredLength.numeral) ELSE 0)

\* C23: in a connection's job the stream is parsed once, the router is asked
\* only after a successful parse, the handler of a matched route is called
\* once, with the path parameters already in the Context, no handler is
\* called otherwise, and nothing is read from the stream after the parse.
C23_StepsOnceAndInOrder ==
    /\ [](cpc \in {"listen", "parse", "panicked"} => (rpc = "setup" /\ invoked = <<>>))
    /\ []((Parsed /\ rpc = "served") => parsed.kind = "Ok")
    /\ [](invoked # <<>> =>
            /\ Len(invoked) = 1
            /\ selected # <<>>
            /\ invoked[1] = selected[1].handler
            /\ DOMAIN path_params =
                  {Between(selected[1].path[i]) : i \in ParamAt(selected[1])}
            /\ \A i \in ParamAt(selected[1]) :
                  path_params[Between(selected[1].path[i])] = Segments(request.path)[i])
    /\ [](cpc \in {"handler", "done"} =>
            Len(invoked) = IF parsed.kind = "Ok" /\ selected # <<>> THEN 1 ELSE 0)
    /\ [][/\ cpc # "parse" => position' = position
          /\ cpc' = "parse" => cpc \in {"listen", "parse"}]_vars

\* C23 witness: a job is over whose handler was called with a path parameter
\* bound, and bytes of the stream are left unread.
C23_Witness ==
    /\ cpc = "done"
    /\ Len(invoked) = 1
    /\ DOMAIN path_params # {}
    /\ position < Len(stream)

\* ------------------------------------------------------------ stalled jobs

\* The workers held by a job that never returns.
Stuck == {w \in workers : pc[w] = "run" /\ kind[cur[w]] = "stall"}

\* C24: in a pool of two or more workers of which, at all times, fewer than
\* all are stuck on a job that never returns, every job submitted is
\* eventually dequeued and run.
C24_StalledJobHoldsOneWorker ==
    (Cardinality(workers) >= 2 /\ [](Cardinality(Stuck) < Cardinality(workers)))
        => \A j \in 1 .. MaxJobs : (j \in Submitted) ~> (j \in Submitted /\ runs[j] >= 1)

\* ------------------------------------------------------------ slashes

\* C25: a route's stored segments are those of each of the four spellings of
\* its pattern (p, /p, p/, /p/); every spelling of the request's path has the
\* segments the route was selected for, so that each selects that route (the
\* normalisation reads no route: it is compared on routers of at most one);
\* and the path / is the single empty segment, served by a route registered
\* as /.
C25_SlashesInsignificant ==
    /\ rpc = "setup" =>
          \A i \in DOMAIN routes : \A lead \in BOOLEAN, trail \in BOOLEAN :
              Segments(Spell(routes[i].path, lead, trail)) = routes[i].path
    /\ rpc = "served" =>
          LET segs == Segments(request.path)
          IN /\ Len(routes) <= 1 =>
                   \A lead \in BOOLEAN, trail \in BOOLEAN :
                       Segments(Spell(segs, lead, trail)) = segs
             /\ (/\ request.path = <<"/">>
                 /\ \E i \in DOMAIN routes :
                       routes[i].method = request.method /\ routes[i].path = <<<<>>>>)
                   => (segs = <<<<>>>> /\ selected # <<>> /\ selected[1].path = <<<<>>>>)

\* C25 witness: the path / was served by a route registered as /, and a route
\* of two segments is registered beside it.
C25_Witness ==
    /\ rpc = "served"
    /\ request.path = <<"/">>
    /\ selected # <<>>
    /\ \E i \in DOMAIN routes : Len(routes[i].path) = 2
====
